---- MODULE Spec2Model ----
(***************************************************************************)
(* Model of src/app.py (Image Text Extractor):                             *)
(*   - optimise_image: resize to at most 4096 px per side, then the        *)
(*     quality-lowering JPEG encode loop against the 5 MB budget;          *)
(*   - process_image_with_claude / create_docx / the 'Extract Text' loop   *)
(*     of main.                                                            *)
(* Python floats are IEEE-754 doubles; the resize arithmetic               *)
(* int(h * (max_dim / w)) is computed here bit by bit with round-to-       *)
(* nearest-even on a 53-bit significand, since TLC integers are 32 bits.   *)
(***************************************************************************)
EXTENDS Integers, Sequences, FiniteSets, TLC

\* ------------------------------------------------------------------------
\* Program constants
\* ------------------------------------------------------------------------
MaxDim == 4096

Budget == 5 * 1024 * 1024

FirstQuality == 95

FirstLoopQuality == 90

MinQuality == 75

QualityStep == 5

MantBits == 53

ErrorPrefix == "Error processing image: "

\* ------------------------------------------------------------------------
\* Bounds of the model
\* ------------------------------------------------------------------------
SizeSlack == 1

MaxImages == 2

\* ------------------------------------------------------------------------
\* IEEE-754 double arithmetic on bit sequences (most significant bit first)
\* A double is [mant |-> <<b1..b53>>, exp |-> e], value = mant * 2^e.
\* Intermediate integers are kept in 13-bit limbs so that every product
\* stays below 2^31; sides are below 2^14.
\* ------------------------------------------------------------------------
LimbBits == 13

RECURSIVE Pow2(_)
Pow2(n) == IF n = 0 THEN 1 ELSE 2 * Pow2(n - 1)

Limb == Pow2(LimbBits)

RECURSIVE NatToBits(_)
NatToBits(n) == IF n = 0 THEN <<>> ELSE NatToBits(n \div 2) \o <<n % 2>>

RECURSIVE BitsToNat(_)
BitsToNat(bits) ==
    IF bits = <<>> THEN 0
    ELSE 2 * BitsToNat(SubSeq(bits, 1, Len(bits) - 1)) + bits[Len(bits)]

\* the LimbBits bits of one limb
LimbToBits(v) == [i \in 1..LimbBits |-> (v \div Pow2(LimbBits - i)) % 2]

\* limb j (1 = most significant) of the bits that follow the leading bit
BitsToLimb(bits, j) ==
    BitsToNat(SubSeq(bits, 2 + LimbBits * (j - 1), 1 + LimbBits * j))

\* bits + 1
IncBits(bits) ==
    IF \A i \in 1..Len(bits) : bits[i] = 1
    THEN <<1>> \o [i \in 1..Len(bits) |-> 0]
    ELSE LET j == CHOOSE j \in 1..Len(bits) :
                      bits[j] = 0 /\ \A i \in (j + 1)..Len(bits) : bits[i] = 1
         IN  [i \in 1..Len(bits) |->
                 IF i < j THEN bits[i] ELSE IF i = j THEN 1 ELSE 0]

\* smallest k with a * 2^k >= b
RECURSIVE NormShift(_, _)
NormShift(a, b) == IF a >= b THEN 0 ELSE 1 + NormShift(2 * a, b)

\* round a bit string with binary exponent e to MantBits bits, ties to even
RoundBits(bits, e, guard, sticky) ==
    LET up == guard = 1 /\ (sticky \/ bits[Len(bits)] = 1)
        m  == IF up THEN IncBits(bits) ELSE bits
    IN  IF Len(m) > MantBits
        THEN [mant |-> SubSeq(m, 1, MantBits), exp |-> e + 1]
        ELSE [mant |-> m, exp |-> e]

\* the double nearest to a / b, for integers 0 < a < b:
\* a leading 1 and then (MantBits - 1) = 4 * LimbBits quotient bits
FloatDiv(a, b) ==
    LET k  == NormShift(a, b)
        r0 == a * Pow2(k) - b
        q1 == (r0 * Limb) \div b
        r1 == (r0 * Limb) % b
        q2 == (r1 * Limb) \div b
        r2 == (r1 * Limb) % b
        q3 == (r2 * Limb) \div b
        r3 == (r2 * Limb) % b
        q4 == (r3 * Limb) \div b
        r4 == (r3 * Limb) % b
        bits == <<1>> \o LimbToBits(q1) \o LimbToBits(q2)
                      \o LimbToBits(q3) \o LimbToBits(q4)
    IN  RoundBits(bits, 0 - (k + MantBits - 1),
                  IF 2 * r4 >= b THEN 1 ELSE 0, 2 * r4 # b)

\* the exact product n * mant as a bit string, for an integer n >= 1
MulBits(mant, n) ==
    LET t4 == BitsToLimb(mant, 4) * n
        t3 == BitsToLimb(mant, 3) * n + t4 \div Limb
        t2 == BitsToLimb(mant, 2) * n + t3 \div Limb
        t1 == BitsToLimb(mant, 1) * n + t2 \div Limb
        t0 == mant[1] * n + t1 \div Limb
    IN  NatToBits(t0) \o LimbToBits(t1 % Limb) \o LimbToBits(t2 % Limb)
                      \o LimbToBits(t3 % Limb) \o LimbToBits(t4 % Limb)

\* the double nearest to n * f, for an integer n >= 1 and a double f
FloatMul(n, f) ==
    LET p == MulBits(f.mant, n)
        d == Len(p) - MantBits
    IN  IF d <= 0 THEN [mant |-> p, exp |-> f.exp]
        ELSE RoundBits(SubSeq(p, 1, MantBits), f.exp + d, p[MantBits + 1],
                       \E i \in (MantBits + 2)..Len(p) : p[i] = 1)

\* int(f): truncation towards zero of a non-negative double below 2^MantBits
IntTrunc(f) ==
    LET n == Len(f.mant) + f.exp
    IN  IF n <= 0 THEN 0 ELSE BitsToNat(SubSeq(f.mant, 1, n))

\* int(n * (max_dim / d))
ScaleSide(n, d) == IntTrunc(FloatMul(n, FloatDiv(MaxDim, d)))

\* the size optimise_image resizes to
NewSize(w, h) ==
    IF w > MaxDim \/ h > MaxDim
    THEN IF w >= h THEN <<MaxDim, ScaleSide(h, w)>>
         ELSE <<ScaleSide(w, h), MaxDim>>
    ELSE <<w, h>>

\* ------------------------------------------------------------------------
\* Images, encodings and the inputs the model draws from
\* ------------------------------------------------------------------------
\* the qualities an image has an encoded size for
Qualities == {q \in (MinQuality - QualityStep)..FirstQuality : q % QualityStep = 0}

\* encoded sizes around the budget
SizeSet == (Budget - SizeSlack + 1)..(Budget + SizeSlack)

\* pixel sizes (w, h) of the input images
Sizes == { <<1, 1>>, <<640, 480>>, <<4096, 4096>>, <<4097, 4096>>, <<1, 4097>>,
           <<10000, 1>>, <<5000, 3000>>, <<3000, 5000>>, <<4237, 4237>>,
           <<8192, 8192>> }

\* data that Image.open cannot decode
Undecodable ==
    [decodable |-> FALSE, size |-> <<0, 0>>, bytes |-> [q \in Qualities |-> 0]]

\* a JPEG of a few thousand pixels is far below the budget; only an image
\* of millions of pixels can encode to about 5 MB
SmallLen == 1024

BytesOf(sz) ==
    IF 3 * sz[1] * sz[2] >= Budget THEN [Qualities -> SizeSet]
    ELSE {[q \in Qualities |-> SmallLen]}

\* every input of optimise_image: an image is its pixel size and the length
\* of its JPEG encoding at each quality
Inputs ==
    {Undecodable} \cup
    UNION {[decodable : {TRUE}, size : {sz}, bytes : BytesOf(sz)] : sz \in Sizes}

NoBuf == [quality |-> 0, size |-> <<0, 0>>, len |-> 0]

\* img.save(buf, format="JPEG", optimize=True, quality=q) on an image of
\* pixel size sz
Encode(img, sz, q) == [quality |-> q, size |-> sz, len |-> img.bytes[q]]

\* the files the uploader offers and the frames the camera delivers
SmallImage ==
    [decodable |-> TRUE, size |-> <<640, 480>>,
     bytes |-> [q \in Qualities |-> SmallLen]]

LargeImage ==
    [decodable |-> TRUE, size |-> <<5000, 3000>>,
     bytes |-> [q \in Qualities |-> IF q >= 85 THEN Budget + 1 ELSE Budget]]

HugeImage ==
    [decodable |-> TRUE, size |-> <<8192, 8192>>,
     bytes |-> [q \in Qualities |-> Budget + 1]]

Files ==
    { [name |-> "small.png", img |-> SmallImage],
      [name |-> "large.jpg", img |-> LargeImage],
      [name |-> "broken.jpg", img |-> Undecodable] }

Captures ==
    { [prefix_ok |-> TRUE, img |-> HugeImage],
      [prefix_ok |-> TRUE, img |-> Undecodable],
      [prefix_ok |-> FALSE, img |-> Undecodable] }

NoFile == "none"

NoCapture == [prefix_ok |-> FALSE, img |-> SmallImage]

\* what the vision API can answer and how a request can fail
Transcripts == {"lorem", "ipsum"}

Failures == {"timeout"}

NoResult == <<>>

NoDoc == <<>>

VARIABLES
    opt_pc,      \* position inside optimise_image
    opt_caller,  \* who called optimise_image: "none", "direct", "upload", "camera"
    arg,         \* image_data
    file,        \* the uploaded file being handled
    img_size,    \* img.size
    buf,         \* buf
    size_bytes,  \* size_bytes
    quality,     \* quality
    encodes,     \* the qualities img.save was called with, in call order
    ret,         \* the value optimise_image returned
    images,      \* st.session_state["images"]
    query,       \* the capturedb64 query parameter
    error,       \* the st.error message on the page
    ex_pc,       \* position inside the 'Extract Text' handler
    idx,         \* idx + 1 of the loop over the images
    result,      \* result
    texts,       \* texts
    requests,    \* the requests sent to the API during this extraction
    responses,   \* the outcomes of those requests
    rendered,    \* the expanders written
    status,      \* status_area
    doc          \* the document create_docx built

optVars == <<opt_pc, opt_caller, arg, file, img_size, buf, size_bytes, quality,
             encodes, ret>>

appVars == <<images, query, error>>

exVars == <<ex_pc, idx, result, texts, requests, responses, rendered, status,
            doc>>

vars == <<optVars, appVars, exVars>>

\* ------------------------------------------------------------------------
\* optimise_image, one step per statement group
\* ------------------------------------------------------------------------
OptInit ==
    /\ opt_pc = "idle"
    /\ opt_caller = "none"
    /\ arg = Undecodable
    /\ file = NoFile
    /\ img_size = <<0, 0>>
    /\ buf = NoBuf
    /\ size_bytes = 0
    /\ quality = 0
    /\ encodes = <<>>
    /\ ret = NoBuf

\* entry of optimise_image(image_data) for a caller
OptCall(caller, f, image) ==
    /\ opt_pc' = "open"
    /\ opt_caller' = caller
    /\ arg' = image
    /\ file' = f
    /\ img_size' = <<0, 0>>
    /\ buf' = NoBuf
    /\ size_bytes' = 0
    /\ quality' = 0
    /\ encodes' = <<>>
    /\ ret' = NoBuf

\* Image.open and the conversion to RGB; undecodable data raises
OptOpen ==
    /\ opt_pc = "open"
    /\ IF arg.decodable
       THEN /\ opt_pc' = "resize"
            /\ img_size' = arg.size
       ELSE /\ opt_pc' = "raised"
            /\ UNCHANGED img_size
    /\ UNCHANGED <<opt_caller, arg, file, buf, size_bytes, quality, encodes,
                   ret, appVars, exVars>>

\* the resize to at most max_dim per side; Pillow refuses a side of 0 pixels
\* (in resize or in the JPEG save that follows), which leaves through the
\* except clause
OptResize ==
    /\ opt_pc = "resize"
    /\ img_size' = NewSize(img_size[1], img_size[2])
    /\ opt_pc' = IF img_size'[1] = 0 \/ img_size'[2] = 0
                 THEN "raised" ELSE "encode"
    /\ UNCHANGED <<opt_caller, arg, file, buf, size_bytes, quality, encodes,
                   ret, appVars, exVars>>

\* the save at quality 95 and the test that opens the loop
OptEncodeFirst ==
    /\ opt_pc = "encode"
    /\ buf' = Encode(arg, img_size, FirstQuality)
    /\ size_bytes' = buf'.len
    /\ encodes' = Append(encodes, FirstQuality)
    /\ IF size_bytes' > Budget
       THEN /\ quality' = FirstLoopQuality
            /\ opt_pc' = "loop"
       ELSE /\ opt_pc' = "return"
            /\ UNCHANGED quality
    /\ UNCHANGED <<opt_caller, arg, file, img_size, ret, appVars, exVars>>

\* variant: the loop goes one quality step further down
LoopCondLower(sz, q) == sz > Budget /\ q >= MinQuality - QualityStep

\* variant: the loop does not look at the size
LoopCondNoSize(sz, q) == q >= MinQuality

\* while size_bytes > 5 * 1024 * 1024 and quality >= 75
LoopCond(sz, q) == sz > Budget /\ q >= MinQuality

\* one iteration of the loop
OptLoopEncode ==
    /\ opt_pc = "loop"
    /\ LoopCond(size_bytes, quality)
    /\ buf' = Encode(arg, img_size, quality)
    /\ size_bytes' = buf'.len
    /\ encodes' = Append(encodes, quality)
    /\ quality' = quality - QualityStep
    /\ UNCHANGED <<opt_pc, opt_caller, arg, file, img_size, ret, appVars,
                   exVars>>

\* the loop condition is false
OptLoopExit ==
    /\ opt_pc = "loop"
    /\ ~LoopCond(size_bytes, quality)
    /\ opt_pc' = "return"
    /\ UNCHANGED <<opt_caller, arg, file, img_size, buf, size_bytes, quality,
                   encodes, ret, appVars, exVars>>

\* buf.seek(0); return buf.getvalue()
OptReturn ==
    /\ opt_pc = "return"
    /\ ret' = buf
    /\ opt_pc' = "returned"
    /\ UNCHANGED <<opt_caller, arg, file, img_size, buf, size_bytes, quality,
                   encodes, appVars, exVars>>

OptStep ==
    \/ OptOpen
    \/ OptResize
    \/ OptEncodeFirst
    \/ OptLoopEncode
    \/ OptLoopExit
    \/ OptReturn

\* ------------------------------------------------------------------------
\* create_docx
\* ------------------------------------------------------------------------
Block(type, level, num, text) ==
    [type |-> type, level |-> level, num |-> num, text |-> text]

\* the heading, the paragraph and the page break of images i..len(text_list)
RECURSIVE DocSections(_, _)
DocSections(text_list, i) ==
    IF i > Len(text_list) THEN <<>>
    ELSE <<Block("heading", 1, i, <<"Image ">>),
           Block("paragraph", 0, 0, text_list[i])>>
         \o (IF i < Len(text_list)
             THEN <<Block("page_break", 0, 0, <<>>)>> ELSE <<>>)
         \o DocSections(text_list, i + 1)

CreateDocx(text_list) ==
    <<Block("heading", 0, 0, <<"Extracted Text from Images">>)>>
    \o DocSections(text_list, 1)

\* ------------------------------------------------------------------------
\* main: the session, the upload and camera handlers, the image grid
\* ------------------------------------------------------------------------
NoStatus == [msg |-> "", k |-> 0, n |-> 0]

ExInit ==
    /\ ex_pc = "idle"
    /\ idx = 0
    /\ result = NoResult
    /\ texts = <<>>
    /\ requests = <<>>
    /\ responses = <<>>
    /\ rendered = <<>>
    /\ status = NoStatus
    /\ doc = NoDoc

Init ==
    /\ OptInit
    /\ images = <<>>
    /\ query = NoCapture
    /\ error = ""
    /\ ExInit

\* no script run is in progress
AppIdle == opt_pc = "idle" /\ ex_pc = "idle"

SessionFiles == {images[i].file : i \in 1..Len(images)} \ {NoFile}

SessionData == {images[i].data : i \in 1..Len(images)}

\* a file of the uploader that is not yet in the session: optimise_image(f)
UploadStart(f) ==
    /\ AppIdle
    /\ Len(images) < MaxImages
    /\ f.name \notin SessionFiles
    /\ OptCall("upload", f.name, f.img)
    /\ error' = ""
    /\ UNCHANGED <<images, query, exVars>>

\* optimise_image returned: the image joins the session
UploadDone ==
    /\ opt_pc = "returned"
    /\ opt_caller = "upload"
    /\ images' = Append(images, [data |-> ret, file |-> file, method |-> "upload"])
    /\ opt_pc' = "idle"
    /\ opt_caller' = "none"
    /\ UNCHANGED <<arg, file, img_size, buf, size_bytes, quality, encodes, ret,
                   query, error, exVars>>

\* optimise_image raised: st.error, nothing is stored
UploadError ==
    /\ opt_pc = "raised"
    /\ opt_caller = "upload"
    /\ error' = "upload"
    /\ opt_pc' = "idle"
    /\ opt_caller' = "none"
    /\ UNCHANGED <<arg, file, img_size, buf, size_bytes, quality, encodes, ret,
                   images, query, exVars>>

\* the page is reloaded with ?capturedb64=<frame>
SetQuery(c) ==
    /\ AppIdle
    /\ query = NoCapture
    /\ query' = c
    /\ error' = ""
    /\ UNCHANGED <<optVars, images, exVars>>

\* the parameter does not start with data:image/jpeg;base64: it is cleared
CameraInvalid ==
    /\ AppIdle
    /\ query # NoCapture
    /\ ~query.prefix_ok
    /\ query' = NoCapture
    /\ UNCHANGED <<optVars, images, error, exVars>>

\* optimise_image(new_b64, is_base64=True)
CameraStart ==
    /\ AppIdle
    /\ query # NoCapture
    /\ query.prefix_ok
    /\ Len(images) < MaxImages
    /\ OptCall("camera", NoFile, query.img)
    /\ UNCHANGED <<appVars, exVars>>

\* the frame joins the session unless its bytes are already there; the
\* parameter is cleared and the script reruns
CameraDone ==
    /\ opt_pc = "returned"
    /\ opt_caller = "camera"
    /\ images' = IF ret \notin SessionData
                 THEN Append(images, [data |-> ret, file |-> NoFile, method |-> "camera"])
                 ELSE images
    /\ query' = NoCapture
    /\ opt_pc' = "idle"
    /\ opt_caller' = "none"
    /\ UNCHANGED <<arg, file, img_size, buf, size_bytes, quality, encodes, ret,
                   error, exVars>>

\* optimise_image raised: st.error; the parameter stays in the URL
CameraError ==
    /\ opt_pc = "raised"
    /\ opt_caller = "camera"
    /\ error' = "camera"
    /\ opt_pc' = "idle"
    /\ opt_caller' = "none"
    /\ UNCHANGED <<arg, file, img_size, buf, size_bytes, quality, encodes, ret,
                   images, query, exVars>>

\* the Remove button of image i: st.session_state["images"].pop(i)
Remove(i) ==
    /\ AppIdle
    /\ i \in 1..Len(images)
    /\ images' = SubSeq(images, 1, i - 1) \o SubSeq(images, i + 1, Len(images))
    /\ error' = ""
    /\ UNCHANGED <<optVars, query, exVars>>

\* the Clear All button, shown for more than one image
ClearAll ==
    /\ AppIdle
    /\ Len(images) > 1
    /\ images' = <<>>
    /\ error' = ""
    /\ UNCHANGED <<optVars, query, exVars>>

\* ------------------------------------------------------------------------
\* main: the 'Extract Text' handler, with process_image_with_claude inline
\* ------------------------------------------------------------------------
\* the Extract Text button, shown when the session holds images
ExtractStart ==
    /\ AppIdle
    /\ images # <<>>
    /\ ex_pc' = "loop"
    /\ idx' = 1
    /\ texts' = <<>>
    /\ error' = ""
    /\ UNCHANGED <<optVars, images, query, result, requests, responses,
                   rendered, status, doc>>

\* variant: the loop leaves out the last image
LoopHasNextShort(i, n) == i < n

\* for idx, info in enumerate(st.session_state["images"])
LoopHasNext(i, n) == i <= n

\* the status line, then process_image_with_claude sends the request
ExtractRequest ==
    /\ ex_pc = "loop"
    /\ LoopHasNext(idx, Len(images))
    /\ status' = [msg |-> "Processing image", k |-> idx, n |-> Len(images)]
    /\ requests' = Append(requests, [idx |-> idx, data |-> images[idx].data])
    /\ ex_pc' = "awaiting"
    /\ UNCHANGED <<optVars, appVars, idx, result, texts, responses, rendered,
                   doc>>

\* return response.content[0].text
ApiSuccess(t) ==
    /\ ex_pc = "awaiting"
    /\ result' = <<t>>
    /\ responses' = Append(responses, [idx |-> idx, ok |-> TRUE, body |-> t])
    /\ ex_pc' = "got"
    /\ UNCHANGED <<optVars, appVars, idx, texts, requests, rendered, status,
                   doc>>

\* variant: the exception leaves process_image_with_claude and ends the run
ApiFailureRaises(e) ==
    /\ ex_pc = "awaiting"
    /\ responses' = Append(responses, [idx |-> idx, ok |-> FALSE, body |-> e])
    /\ ex_pc' = "done"
    /\ UNCHANGED <<optVars, appVars, idx, result, texts, requests, rendered,
                   status, doc>>

\* except Exception as e: return f"Error processing image: {str(e)}"
ApiFailure(e) ==
    /\ ex_pc = "awaiting"
    /\ result' = <<ErrorPrefix, e>>
    /\ responses' = Append(responses, [idx |-> idx, ok |-> FALSE, body |-> e])
    /\ ex_pc' = "got"
    /\ UNCHANGED <<optVars, appVars, idx, texts, requests, rendered, status,
                   doc>>

\* texts.append(result)
ExtractAppend ==
    /\ ex_pc = "got"
    /\ texts' = Append(texts, result)
    /\ ex_pc' = "appended"
    /\ UNCHANGED <<optVars, appVars, idx, result, requests, responses,
                   rendered, status, doc>>

\* the expander with the result, the progress bar, the next iteration
ExtractRender ==
    /\ ex_pc = "appended"
    /\ rendered' = Append(rendered, [n |-> idx, body |-> result])
    /\ idx' = idx + 1
    /\ ex_pc' = "loop"
    /\ UNCHANGED <<optVars, appVars, result, texts, requests, responses,
                   status, doc>>

\* after the loop: "Done!" and, if texts, the document behind the download
\* button
ExtractDone ==
    /\ ex_pc = "loop"
    /\ ~LoopHasNext(idx, Len(images))
    /\ status' = [msg |-> "Done!", k |-> 0, n |-> 0]
    /\ doc' = IF texts # <<>> THEN CreateDocx(texts) ELSE NoDoc
    /\ ex_pc' = "done"
    /\ UNCHANGED <<optVars, appVars, idx, result, texts, requests, responses,
                   rendered>>

\* the next interaction reruns the script: the output of the run is gone
Rerun ==
    /\ ex_pc = "done"
    /\ ex_pc' = "idle"
    /\ idx' = 0
    /\ result' = NoResult
    /\ texts' = <<>>
    /\ requests' = <<>>
    /\ responses' = <<>>
    /\ rendered' = <<>>
    /\ status' = NoStatus
    /\ doc' = NoDoc
    /\ UNCHANGED <<optVars, appVars>>

\* ------------------------------------------------------------------------
\* Specifications
\* ------------------------------------------------------------------------
Next ==
    \/ \E f \in Files : UploadStart(f)
    \/ UploadDone
    \/ UploadError
    \/ \E c \in Captures : SetQuery(c)
    \/ CameraInvalid
    \/ CameraStart
    \/ CameraDone
    \/ CameraError
    \/ OptStep
    \/ \E i \in 1..MaxImages : Remove(i)
    \/ ClearAll
    \/ ExtractStart
    \/ ExtractRequest
    \/ \E t \in Transcripts : ApiSuccess(t)
    \/ \E e \in Failures : ApiFailure(e)
    \/ ExtractAppend
    \/ ExtractRender
    \/ ExtractDone
    \/ Rerun

Spec == Init /\ [][Next]_vars

\* optimise_image alone, applied to every input
InitOptimise ==
    /\ opt_pc = "open"
    /\ opt_caller = "direct"
    /\ arg \in Inputs
    /\ file = NoFile
    /\ img_size = <<0, 0>>
    /\ buf = NoBuf
    /\ size_bytes = 0
    /\ quality = 0
    /\ encodes = <<>>
    /\ ret = NoBuf
    /\ images = <<>>
    /\ query = NoCapture
    /\ error = ""
    /\ ExInit

NextOptimise == OptStep

SpecOptimise == InitOptimise /\ [][NextOptimise]_vars

\* ------------------------------------------------------------------------
\* Properties
\* ------------------------------------------------------------------------
ClaimQualities == <<95, 90, 85, 80, 75>>

ClaimBudget == 5 * 1024 * 1024

IsPrefix(s, t) == Len(s) <= Len(t) /\ \A i \in 1..Len(s) : s[i] = t[i]

Max(S) == CHOOSE m \in S : \A x \in S : x <= m

\* the resize step of optimise_image has run on a decoded image
Resized ==
    \/ opt_pc \in {"encode", "loop", "return", "returned"}
    \/ opt_pc = "raised" /\ arg.decodable

\* C1: whenever optimise_image returns normally, the returned JPEG is at
\* most 5*1024*1024 bytes long, whatever sizes the image encodes to at
\* qualities 95, 90, 85, 80 and 75.
C1_ReturnedWithinBudget ==
    opt_pc = "returned" => ret.len <= ClaimBudget

\* an upper bound on the steps optimise_image still has to take
OptRank ==
    CASE opt_pc = "open" -> 10
      [] opt_pc = "resize" -> 9
      [] opt_pc = "encode" -> 8
      [] opt_pc = "loop" ->
             2 + (IF quality >= 75 THEN (quality - 70) \div 5 ELSE 0)
      [] opt_pc = "return" -> 1
      [] OTHER -> 0

\* C2: the quality loop terminates: one encode at quality 95, then at most
\* four more at 90, 85, 80, 75 in this order, never below 75, and none after
\* the quality-95 encode when that one is at most 5 MB; every step of
\* optimise_image lowers a bound on the steps that remain.
C2_EncodesBounded ==
    /\ IsPrefix(encodes, ClaimQualities)
    /\ opt_pc \in {"loop", "return", "returned"} => Len(encodes) >= 1
    /\ (encodes # <<>> /\ arg.bytes[95] <= ClaimBudget) => encodes = <<95>>
    /\ opt_pc = "loop" => quality = 95 - 5 * Len(encodes)

C2_LoopTerminates == []C2_EncodesBounded /\ [][OptRank' < OptRank]_vars

C2_Witness == opt_pc = "returned" /\ encodes = ClaimQualities

\* C5: when some quality of 95, 90, 85, 80, 75 encodes to at most 5 MB,
\* optimise_image returns the encoding at the highest such quality: the
\* qualities are tried in descending order, every quality tried before the
\* returned one was too large, and the bytes returned are those of the
\* last encode.
FittingQualities ==
    {ClaimQualities[i] : i \in {j \in 1..Len(ClaimQualities) :
                                   arg.bytes[ClaimQualities[j]] <= ClaimBudget}}

C5_HighestFittingQuality ==
    (opt_pc = "returned" /\ FittingQualities # {}) =>
        LET best == Max(FittingQualities)
        IN  /\ ret = Encode(arg, img_size, best)
            /\ ret.len <= ClaimBudget
            /\ IsPrefix(encodes, ClaimQualities)
            /\ encodes[Len(encodes)] = ret.quality
            /\ \A i \in 1..(Len(encodes) - 1) :
                   arg.bytes[encodes[i]] > ClaimBudget

C5_Witness ==
    /\ opt_pc = "returned"
    /\ ret.quality = 80
    /\ arg.bytes[95] > ClaimBudget
    /\ arg.bytes[75] <= ClaimBudget

\* C6: for every input size (w, h) with w, h >= 1 the size optimise_image
\* goes on to encode has both sides in 1..4096: unchanged when both sides
\* are at most 4096, otherwise the longer side is 4096 and the shorter side
\* is floor(shorter * 4096 / longer), which is at least 1.
C6_ResizedWithinBounds ==
    Resized =>
        LET w == arg.size[1]
            h == arg.size[2]
        IN  /\ img_size[1] \in 1..4096
            /\ img_size[2] \in 1..4096
            /\ img_size = IF w <= 4096 /\ h <= 4096 THEN <<w, h>>
                          ELSE IF w >= h THEN <<4096, (h * 4096) \div w>>
                          ELSE <<(w * 4096) \div h, 4096>>

\* what process_image_with_claude returns for an outcome of the request
ResultOf(r) == IF r.ok THEN <<r.body>> ELSE <<ErrorPrefix, r.body>>

\* C3: one 'Extract Text' action over n images issues exactly n requests,
\* one at a time and in list order: request k+1 is issued only after result
\* k was returned, appended to texts and rendered; at the end texts has
\* length n with texts[k] the result for image k, and the document is built
\* only after the last request has completed.
C3_SequentialRequests ==
    /\ Len(requests) <= Len(images)
    /\ \A j \in 1..Len(requests) :
           requests[j].idx = j /\ requests[j].data = images[j].data
    /\ Len(responses) <= Len(requests)
    /\ Len(requests) <= Len(rendered) + 1
    /\ Len(rendered) <= Len(texts)
    /\ Len(texts) <= Len(responses)
    /\ \A k \in 1..Len(texts) :
           responses[k].idx = k /\ texts[k] = ResultOf(responses[k])
    /\ \A k \in 1..Len(rendered) :
           rendered[k].n = k /\ rendered[k].body = texts[k]
    /\ ex_pc = "done" =>
           Len(requests) = Len(images) /\ Len(texts) = Len(images)
    /\ doc # NoDoc =>
           ex_pc = "done" /\ Len(responses) = Len(images)

C3_Witness ==
    /\ ex_pc = "done"
    /\ Len(images) = 2
    /\ Len(requests) = 2
    /\ doc # NoDoc

\* C4: process_image_with_claude never raises: a failed request yields a
\* string that begins with 'Error processing image: '. A failure on image k
\* does not stop the loop: the run ends with one text per image, the failure
\* string at position k, and a document with one section per image.
C4_FailureContained ==
    /\ \A k \in 1..Len(responses) :
           ~responses[k].ok =>
               IF k <= Len(texts) THEN texts[k][1] = ErrorPrefix
               ELSE ex_pc = "got" /\ result[1] = ErrorPrefix
    /\ ex_pc = "done" =>
           /\ Len(texts) = Len(images)
           /\ Len(responses) = Len(images)
           /\ doc # NoDoc
           /\ Cardinality({b \in 1..Len(doc) :
                  doc[b].type = "heading" /\ doc[b].level = 1}) = Len(images)
           /\ \A k \in 1..Len(images) :
                  /\ doc[3 * k - 1] = Block("heading", 1, k, <<"Image ">>)
                  /\ doc[3 * k] = Block("paragraph", 0, 0, texts[k])

C4_Witness ==
    /\ ex_pc = "done"
    /\ Len(images) = 2
    /\ ~responses[1].ok
    /\ responses[2].ok
    /\ doc # NoDoc

====
